---- MODULE Spec2Model ----
(***************************************************************************)
(* Model of the App component of src/index.tsx: the news fetch issued by   *)
(* the mount effect, the carousel index and the touch-swipe handlers.      *)
(***************************************************************************)
EXTENDS Integers, Sequences, FiniteSets, TLC

\* ------------------------------------------------------------------ bounds
\* Longest article list a response body carries in the model.
MaxLen == 7

\* Longest run of consecutive handleNext calls that is counted.
MaxStreak == 9

\* ------------------------------------------------------- program constants
\* const swipeThreshold = 50
swipeThreshold == 50

\* JavaScript null (useState<string | null>(null), useRef<number | null>(null)):
\* a nullable value is the empty tuple or the tuple of the value.
Null == <<>>

\* A number held in a ref.
Num(x) == <<x>>

\* The number a non-null ref holds.
Val(ref) == ref[1]

\* clientX values the touch events carry: they give the distances
\* 0, +-1, +-swipeThreshold and +-(swipeThreshold + 1).
Coords == {0, swipeThreshold, swipeThreshold + 1}

\* Article lists a response body can hold: articles are told apart by an
\* identifier, each length comes in two different orders.
Ascending(n) == [i \in 1..n |-> i]

Descending(n) == [i \in 1..n |-> n + 1 - i]

ArticleLists == {Ascending(n) : n \in 0..MaxLen} \cup {Descending(n) : n \in 0..MaxLen}

\* What `finalNews` holds: nothing yet, an array, or a parsed body that is not
\* an array.
NoBody == [kind |-> "none", items |-> <<>>]

ArrayBody(items) == [kind |-> "array", items |-> items]

NotAnArray == [kind |-> "other", items |-> <<>>]

\* The `Details:` part of the message the catch block builds from err.message.
Details == {"network", "bodyMessage", "status", "unparsable", "format"}

\* setError(`Could not fetch market news. Please try again later. (Details: ${err.message})`)
ErrorText(detail) == <<"Could not fetch market news. Please try again later.", detail>>

VARIABLES
    news,          \* useState<NewsArticle[]>([])
    currentIndex,  \* useState(0)
    loading,       \* useState(true)
    error,         \* useState<string | null>(null)
    touchStartX,   \* useRef<number | null>(null)
    touchEndX,     \* useRef<number | null>(null)
    pc,            \* position of fetchNews: start, fetching, errJson, okJson, done
    finalNews,     \* the body the response carried, once it is known
    outcome,       \* how the fetch settled
    mounted,       \* the component is in the tree
    requests,      \* number of fetch('/api/generate-news') calls issued
    ev,            \* the last event handled
    calls,         \* the last two handleNext/handlePrev calls
    streak         \* consecutive handleNext calls since the list was stored

vars == <<news, currentIndex, loading, error, touchStartX, touchEndX, pc,
          finalNews, outcome, mounted, requests, ev, calls, streak>>

state == <<news, currentIndex, loading, error>>

refs == <<touchStartX, touchEndX>>

fetchVars == <<pc, finalNews, outcome, requests>>

\* ------------------------------------------------------------- rendering
ViewWithoutEmptyBranch ==
    IF loading THEN "loading"
    ELSE IF error # Null THEN "error"
    ELSE "carousel"

\* renderContent: which of its four returns is taken.
View ==
    IF loading THEN "loading"
    ELSE IF error # Null THEN "error"
    ELSE IF Len(news) = 0 THEN "empty"
    ELSE "carousel"

\* The phase of the controller as the user sees it: the error message and the
\* "No news articles found" message are both an error-container in place of
\* the carousel.
Phase ==
    CASE View = "loading" -> "Loading"
      [] View \in {"error", "empty"} -> "Error"
      [] View = "carousel" -> "Ready"

\* The text of the error-container, Null when none is shown.
Message ==
    CASE View = "error" -> error
      [] View = "empty" -> <<"No news articles found at the moment.">>
      [] OTHER -> Null

\* ------------------------------------------------------------ navigation
\* The JavaScript % operator on integers, b > 0: the remainder takes the sign
\* of the dividend.
JsRem(a, b) == IF a >= 0 THEN a % b ELSE -((-a) % b)

NextIndexNoWrap(prevIndex, n) == prevIndex + 1

NextIndexClamped(prevIndex, n) == IF prevIndex + 1 >= n THEN prevIndex ELSE prevIndex + 1

\* (prevIndex) => (prevIndex + 1) % news.length
NextIndex(prevIndex, n) == JsRem(prevIndex + 1, n)

PrevIndexNoOffset(prevIndex, n) == JsRem(prevIndex - 1, n)

\* (prevIndex) => (prevIndex - 1 + news.length) % news.length
PrevIndex(prevIndex, n) == JsRem(prevIndex - 1 + n, n)

handleNextUnguarded(prevIndex, n) == IF n = 0 THEN prevIndex + 1 ELSE NextIndex(prevIndex, n)

\* handleNext: the index it leaves.
handleNext(prevIndex, n) == IF n = 0 THEN prevIndex ELSE NextIndex(prevIndex, n)

\* handlePrev: the index it leaves.
handlePrev(prevIndex, n) == IF n = 0 THEN prevIndex ELSE PrevIndex(prevIndex, n)

SlotPrevNoOffset(cur, n) == JsRem(cur - 1, n)

\* (currentIndex - 1 + news.length) % news.length in news.map
SlotPrev(cur, n) == JsRem(cur - 1 + n, n)

SlotNextNoWrap(cur, n) == cur + 1

\* (currentIndex + 1) % news.length in news.map
SlotNext(cur, n) == JsRem(cur + 1, n)

\* The status news.map gives the article at a 0-based index; "none" is the
\* undefined status, for which no card is rendered.
Status(index, cur, n) ==
    IF index = cur THEN "active"
    ELSE IF index = SlotPrev(cur, n) THEN "prev"
    ELSE IF index = SlotNext(cur, n) THEN "next"
    ELSE "none"

\* const distance = touchStartX.current - touchEndX.current
Distance(startX, endX) == startX - endX

SwipeCallInclusive(distance) ==
    IF distance >= swipeThreshold THEN "next"
    ELSE IF distance <= -swipeThreshold THEN "prev"
    ELSE "none"

\* The branch handleTouchEnd takes for a distance.
SwipeCall(distance) ==
    IF distance > swipeThreshold THEN "next"
    ELSE IF distance < -swipeThreshold THEN "prev"
    ELSE "none"

\* The index after the call handleTouchEnd makes.
Navigate(call, prevIndex, n) ==
    CASE call = "next" -> handleNext(prevIndex, n)
      [] call = "prev" -> handlePrev(prevIndex, n)
      [] OTHER -> prevIndex

NoEvent == [name |-> "none", dist |-> Null, call |-> "none", phase |-> "Loading"]

Event(name, dist, call) == [name |-> name, dist |-> dist, call |-> call, phase |-> Phase]

\* The record of the last two navigation calls.
Recorded(call) ==
    IF call = "none" THEN calls
    ELSE LET c == [op |-> call, from |-> currentIndex, n |-> Len(news)]
         IN IF Len(calls) < 2 THEN Append(calls, c) ELSE <<calls[2], c>>

\* The run of handleNext calls counted from index 0.
Counted(call) ==
    CASE call = "none" -> streak
      [] call = "next" /\ streak >= 0 /\ streak < MaxStreak /\ Len(news) > 0 -> streak + 1
      [] OTHER -> -1

Init ==
    /\ news = <<>>
    /\ currentIndex = 0
    /\ loading = TRUE
    /\ error = Null
    /\ touchStartX = Null
    /\ touchEndX = Null
    /\ pc = "start"
    /\ finalNews = NoBody
    /\ outcome = "pending"
    /\ mounted = TRUE
    /\ requests = 0
    /\ ev = NoEvent
    /\ calls = <<>>
    /\ streak = -1

\* ------------------------------------------------------------- the fetch
\* The effect without its empty dependency list: it runs again after the
\* render that follows the settled fetch.
MountEveryRender ==
    /\ pc \in {"start", "done"}
    /\ mounted
    /\ loading' = TRUE
    /\ error' = Null
    /\ requests' = requests + 1
    /\ pc' = "fetching"
    /\ ev' = Event("mount", Null, "none")
    /\ UNCHANGED <<news, currentIndex, refs, finalNews, outcome, mounted, calls, streak>>

\* useEffect(() => { ... fetchNews(); }, []): setLoading(true); setError(null);
\* then fetch('/api/generate-news') is issued and awaited.
Mount ==
    /\ pc = "start"
    /\ mounted
    /\ loading' = TRUE
    /\ error' = Null
    /\ requests' = requests + 1
    /\ pc' = "fetching"
    /\ ev' = Event("mount", Null, "none")
    /\ UNCHANGED <<news, currentIndex, refs, finalNews, outcome, mounted, calls, streak>>

\* The catch block without its setError.
FailNoMessage(kind, detail) ==
    /\ loading' = FALSE
    /\ outcome' = kind
    /\ pc' = "done"
    /\ ev' = Event("fetchFailed", Null, "none")
    /\ UNCHANGED <<news, currentIndex, error, refs, mounted, requests, calls, streak>>

\* setLoading(false) at the end of the try block instead of in a finally.
FailStillLoading(kind, detail) ==
    /\ error' = ErrorText(detail)
    /\ outcome' = kind
    /\ pc' = "done"
    /\ ev' = Event("fetchFailed", Null, "none")
    /\ UNCHANGED <<news, currentIndex, loading, refs, mounted, requests, calls, streak>>

\* catch (err) { setError(...) } finally { setLoading(false) }
Fail(kind, detail) ==
    /\ error' = ErrorText(detail)
    /\ loading' = FALSE
    /\ outcome' = kind
    /\ pc' = "done"
    /\ ev' = Event("fetchFailed", Null, "none")
    /\ UNCHANGED <<news, currentIndex, refs, mounted, requests, calls, streak>>

\* await fetch(...) rejects: a network failure.
FetchRejects ==
    /\ pc = "fetching"
    /\ Fail("rejected", "network")
    /\ UNCHANGED finalNews

\* await fetch(...) resolves: response.ok decides which response.json() is awaited.
FetchResponds ==
    /\ pc = "fetching"
    /\ \E ok \in BOOLEAN : pc' = IF ok THEN "okJson" ELSE "errJson"
    /\ ev' = Event("response", Null, "none")
    /\ UNCHANGED <<state, refs, finalNews, outcome, mounted, requests, calls, streak>>

\* !response.ok: errorData = await response.json(), then
\* throw new Error(errorData.error?.message || `Request failed with status ...`),
\* or response.json() itself rejects.
ErrorBody ==
    /\ pc = "errJson"
    /\ \E detail \in {"bodyMessage", "status", "unparsable"} :
          Fail(IF detail = "unparsable" THEN "unparsable" ELSE "badStatus", detail)
    /\ UNCHANGED finalNews

\* response.ok, and await response.json() rejects.
BodyUnparsable ==
    /\ pc = "okJson"
    /\ Fail("unparsable", "unparsable")
    /\ UNCHANGED finalNews

\* response.ok, the body parses and !Array.isArray(finalNews): throw.
BodyNotArray ==
    /\ pc = "okJson"
    /\ finalNews' = NotAnArray
    /\ Fail("notArray", "format")

\* setNews(finalNews) followed by a check of the items that throws.
BodyArrayStoredThenFails ==
    /\ pc = "okJson"
    /\ \E body \in ArticleLists :
          /\ finalNews' = ArrayBody(body)
          /\ news' = body
          /\ streak' = IF Len(body) = 0 THEN -1 ELSE 0
    /\ error' = ErrorText("format")
    /\ outcome' = "notArray"
    /\ loading' = FALSE
    /\ pc' = "done"
    /\ ev' = Event("fetchFailed", Null, "none")
    /\ UNCHANGED <<currentIndex, refs, mounted, requests, calls>>

\* The success path without its setNews(finalNews).
BodyArrayNotStored ==
    /\ pc = "okJson"
    /\ \E body \in ArticleLists :
          /\ finalNews' = ArrayBody(body)
          /\ outcome' = IF Len(body) = 0 THEN "empty" ELSE "ok"
    /\ loading' = FALSE
    /\ pc' = "done"
    /\ ev' = Event("fetchSucceeded", Null, "none")
    /\ UNCHANGED <<news, currentIndex, error, refs, mounted, requests, calls, streak>>

\* response.ok, the body is an array: setNews(finalNews), then finally.
BodyArray ==
    /\ pc = "okJson"
    /\ \E body \in ArticleLists :
          /\ finalNews' = ArrayBody(body)
          /\ news' = body
          /\ outcome' = IF Len(body) = 0 THEN "empty" ELSE "ok"
          /\ streak' = IF Len(body) = 0 THEN -1 ELSE 0
    /\ loading' = FALSE
    /\ pc' = "done"
    /\ ev' = Event("fetchSucceeded", Null, "none")
    /\ UNCHANGED <<currentIndex, error, refs, mounted, requests, calls>>

\* The root is torn down; the effect returns no cleanup, nothing is cancelled.
Unmount ==
    /\ mounted
    /\ pc # "start"
    /\ mounted' = FALSE
    /\ ev' = Event("unmount", Null, "none")
    /\ UNCHANGED <<state, refs, fetchVars, calls, streak>>

\* ------------------------------------------------------- touch handlers
\* handleTouchStart without the reset of the end position.
handleTouchStartKeepsEnd(x) ==
    /\ touchStartX' = Num(x)
    /\ ev' = Event("touchstart", Null, "none")
    /\ UNCHANGED <<state, touchEndX, fetchVars, mounted, calls, streak>>

\* handleTouchStart
handleTouchStart(x) ==
    /\ touchEndX' = Null
    /\ touchStartX' = Num(x)
    /\ ev' = Event("touchstart", Null, "none")
    /\ UNCHANGED <<state, fetchVars, mounted, calls, streak>>

\* handleTouchMove
handleTouchMove(x) ==
    /\ touchEndX' = Num(x)
    /\ ev' = Event("touchmove", Null, "none")
    /\ UNCHANGED <<state, touchStartX, fetchVars, mounted, calls, streak>>

\* handleTouchEnd
handleTouchEnd ==
    IF touchStartX = Null \/ touchEndX = Null
    THEN /\ ev' = Event("touchend", Null, "none")
         /\ UNCHANGED <<state, refs, fetchVars, mounted, calls, streak>>
    ELSE LET distance == Distance(Val(touchStartX), Val(touchEndX))
             call == SwipeCall(distance)
         IN /\ currentIndex' = Navigate(call, currentIndex, Len(news))
            /\ touchStartX' = Null
            /\ touchEndX' = Null
            /\ ev' = Event("touchend", Num(distance), call)
            /\ calls' = Recorded(call)
            /\ streak' = Counted(call)
            /\ UNCHANGED <<news, loading, error, fetchVars, mounted>>

\* The handlers are bound to the news-swiper element, which renderContent
\* returns only in its last branch. Touch events arrive in any order: with two
\* fingers on the element a move or an end can follow an end.
TouchStart == mounted /\ View = "carousel" /\ \E x \in Coords : handleTouchStart(x)

TouchMove == mounted /\ View = "carousel" /\ \E x \in Coords : handleTouchMove(x)

TouchEnd == mounted /\ View = "carousel" /\ handleTouchEnd

\* The same handlers called in whatever the view is, as a caller holding the
\* controller's functions can.
CallTouchStart == mounted /\ \E x \in Coords : handleTouchStart(x)

CallTouchMove == mounted /\ \E x \in Coords : handleTouchMove(x)

CallTouchEnd == mounted /\ handleTouchEnd

Fetch ==
    \/ Mount
    \/ FetchRejects
    \/ FetchResponds
    \/ ErrorBody
    \/ BodyUnparsable
    \/ BodyNotArray
    \/ BodyArray

Next ==
    \/ Fetch
    \/ Unmount
    \/ TouchStart
    \/ TouchMove
    \/ TouchEnd

Spec == Init /\ [][Next]_vars

NextCalls ==
    \/ Fetch
    \/ Unmount
    \/ CallTouchStart
    \/ CallTouchMove
    \/ CallTouchEnd

SpecCalls == Init /\ [][NextCalls]_vars

TypeOK ==
    /\ news \in ArticleLists
    /\ currentIndex \in 0..MaxLen
    /\ loading \in BOOLEAN
    /\ error \in {Null} \cup {ErrorText(d) : d \in Details}
    /\ touchStartX \in {Num(x) : x \in Coords} \cup {Null}
    /\ touchEndX \in {Num(x) : x \in Coords} \cup {Null}
    /\ pc \in {"start", "fetching", "errJson", "okJson", "done"}
    /\ requests \in 0..1
    /\ mounted \in BOOLEAN
    /\ streak \in -1..MaxStreak

\* ------------------------------------------------------------ properties
LastCall == calls[Len(calls)]

TouchNames == {"touchstart", "touchmove", "touchend"}

\* C1: whenever the phase is Ready the item list is non-empty and
\* 0 <= currentIndex < items.length, whatever list was fetched and whatever
\* navigation and touch events followed.
C1_IndexInRange ==
    Phase = "Ready" => Len(news) >= 1 /\ currentIndex >= 0 /\ currentIndex < Len(news)

\* C1 witness: Ready, two navigation calls made, the index on the last item.
C1_Witness ==
    /\ Phase = "Ready"
    /\ Len(calls) = 2
    /\ Len(news) >= 3
    /\ currentIndex = Len(news) - 1

\* C2: a fetch that resolves with an empty array or with a body that is not an
\* array ends in phase Error with a message shown, and a settled fetch never
\* leaves zero items in a phase other than Error.
C2_EmptyOrMalformedIsError ==
    /\ outcome \in {"empty", "notArray"} => pc = "done" /\ Phase = "Error" /\ Message # Null
    /\ pc = "done" /\ Len(news) = 0 => Phase = "Error"

\* C2 witness: the fetch resolved with [] and the error-container is shown.
C2_Witness ==
    /\ outcome = "empty"
    /\ finalNews = ArrayBody(<<>>)
    /\ Phase = "Error"

\* C3: once the component is unmounted no later step changes news, error or
\* loading.
C3_NoChangeAfterUnmount == [][~mounted => UNCHANGED <<news, error, loading>>]_vars

\* C4: the phase starts as Loading, leaves Loading exactly at the step that
\* settles the fetch, and once it is Error or Ready it never changes.
C4_PhaseSettlesOnce ==
    /\ Phase = "Loading"
    /\ [][/\ Phase # "Loading" => Phase' = Phase
          /\ (Phase = "Loading" /\ Phase' # "Loading") <=> (pc # "done" /\ pc' = "done")]_vars

\* C4 witness: the phase is settled and later events have been handled.
C4_Witness ==
    /\ pc = "done"
    /\ Phase = "Error"
    /\ ev.name = "touchend"
    /\ ev.phase = "Error"
    /\ touchStartX = Null
    /\ ev.dist # Null

\* C5: right after the fetch succeeds with a non-empty list the phase is
\* Ready, the stored items are the fetched list in order and currentIndex = 0.
C5_SuccessStoresList ==
    (ev.name = "fetchSucceeded" /\ finalNews.kind = "array" /\ Len(finalNews.items) >= 1) =>
        /\ Phase = "Ready"
        /\ news = finalNews.items
        /\ currentIndex = 0

\* C5 witness: a descending list of the greatest length has just been stored.
C5_Witness ==
    /\ ev.name = "fetchSucceeded"
    /\ Len(news) >= 2
    /\ news[1] = Len(news)
    /\ news = finalNews.items

\* C6: while the phase is Loading or Error every touch start, move and end,
\* and the next()/prev() call a touch end makes, leaves currentIndex and the
\* items unchanged.
C6_NoNavigationUnlessReady ==
    [][(Phase # "Ready" /\ ev'.name \in TouchNames) =>
           (currentIndex' = currentIndex /\ news' = news)]_vars

\* C6 witness: a touch end called next() or prev() while the phase was Error.
C6_Witness ==
    /\ ev.name = "touchend"
    /\ ev.phase = "Error"
    /\ ev.call # "none"

\* C7: with n >= 1 items, next() then prev(), and prev() then next(), return
\* currentIndex to the index they started from.
C7_RoundTrip ==
    (Len(calls) = 2 /\ calls[1].n >= 1 /\ calls[1].op # calls[2].op) =>
        currentIndex = calls[1].from

\* C7 witness: next() from the last index, then prev().
C7_Witness ==
    /\ Len(calls) = 2
    /\ Len(news) >= 2
    /\ calls[1].op = "next"
    /\ calls[2].op = "prev"
    /\ calls[1].from = Len(news) - 1
    /\ calls[1].n = Len(news)

\* C8: from index 0, k consecutive next() calls leave currentIndex = k mod n,
\* and prev() at index 0 leaves n - 1.
C8_CircularWrap ==
    /\ streak >= 0 => currentIndex = streak % Len(news)
    /\ (Len(calls) >= 1 /\ LastCall.op = "prev" /\ LastCall.from = 0 /\ LastCall.n >= 1) =>
           currentIndex = LastCall.n - 1
    /\ (Len(news) = 7 /\ streak = 6) => currentIndex = 6
    /\ (Len(news) = 7 /\ streak = 7) => currentIndex = 0

\* C8 witness: seven items and seven consecutive next() calls.
C8_Witness ==
    /\ Len(news) = 7
    /\ streak = 7
    /\ currentIndex = 0

C10_CoordsClearedAfterEnd ==
    ev.name = "touchend" => (touchStartX = Null /\ touchEndX = Null)

Indices == 0..(Len(news) - 1)

\* The indices of the articles that news.map gives a status.
WithStatus(st) == {i \in Indices : Status(i, currentIndex, Len(news)) = st}

FailedOutcomes == {"rejected", "badStatus", "unparsable"}

\* C11: with exactly one item the predecessor, the active and the successor
\* position are that one item, which is rendered; with exactly two items the
\* predecessor and the successor position are both the single non-active
\* item, which is rendered in a slot.
C11_SmallListSlots ==
    /\ (Phase = "Ready" /\ Len(news) = 1) =>
           /\ SlotPrev(currentIndex, 1) = currentIndex
           /\ SlotNext(currentIndex, 1) = currentIndex
           /\ WithStatus("active") = {currentIndex}
           /\ WithStatus("none") = {}
    /\ (Phase = "Ready" /\ Len(news) = 2) =>
           LET other == 1 - currentIndex
           IN /\ SlotPrev(currentIndex, 2) = other
              /\ SlotNext(currentIndex, 2) = other
              /\ WithStatus("active") = {currentIndex}
              /\ WithStatus("prev") \cup WithStatus("next") = {other}

\* C11 witness: two items, the second one active after a navigation.
C11_Witness ==
    /\ Phase = "Ready"
    /\ Len(news) = 2
    /\ currentIndex = 1
    /\ Len(calls) >= 1

\* C12: in phase Ready with n >= 3 items exactly one item is active (the one
\* at currentIndex), exactly one is prev (at (currentIndex - 1 + n) mod n),
\* exactly one is next (at (currentIndex + 1) mod n), the three are distinct
\* and every other item has no slot.
C12_ThreeDistinctSlots ==
    (Phase = "Ready" /\ Len(news) >= 3) =>
        LET n == Len(news)
            p == (currentIndex - 1 + n) % n
            x == (currentIndex + 1) % n
        IN /\ WithStatus("active") = {currentIndex}
           /\ WithStatus("prev") = {p}
           /\ WithStatus("next") = {x}
           /\ Cardinality({currentIndex, p, x}) = 3
           /\ WithStatus("none") = Indices \ {currentIndex, p, x}

\* C12 witness: the last of at least four items is active, so the next slot
\* wraps to the first item.
C12_Witness ==
    /\ Phase = "Ready"
    /\ Len(news) >= 4
    /\ currentIndex = Len(news) - 1
    /\ WithStatus("next") = {0}

\* C13: after a network rejection, a non-success status or an unparsable
\* body the phase is Error, the message is non-empty, the items are empty and
\* the carousel is not shown.
C13_FailureIsError ==
    outcome \in FailedOutcomes =>
        /\ pc = "done"
        /\ Phase = "Error"
        /\ error # Null
        /\ Message = error
        /\ Len(news) = 0
        /\ View # "carousel"

\* C13 witness: a non-success response whose body could not be parsed.
C13_Witness ==
    /\ outcome = "unparsable"
    /\ error = ErrorText("unparsable")
    /\ Phase = "Error"

\* C14: one request is issued at mount and none after it, whatever events
\* follow.
C14_OneRequest ==
    /\ requests = (IF pc = "start" THEN 0 ELSE 1)
    /\ requests <= 1

\* C14 witness: the fetch failed, touch events were handled, still one request.
C14_Witness ==
    /\ outcome = "rejected"
    /\ ev.name = "touchend"
    /\ requests = 1

\* C15: from the step that settles the fetch on, in whatever way, loading is
\* false.
C15_LoadingEnds ==
    outcome # "pending" => (pc = "done" /\ loading = FALSE)

\* C15 witness: events handled after a non-success response; loading is false.
C15_Witness ==
    /\ outcome = "badStatus"
    /\ ev.name = "touchmove"
    /\ loading = FALSE

\* C16: a touch end that directly follows a touch start leaves currentIndex
\* unchanged.
C16_TapDoesNotNavigate ==
    [][(ev.name = "touchstart" /\ ev'.name = "touchend") => currentIndex' = currentIndex]_vars

\* C16 witness: a touch end returned early with a start coordinate recorded,
\* after earlier interactions had navigated.
C16_Witness ==
    /\ ev.name = "touchend"
    /\ ev.dist = Null
    /\ touchStartX = Num(swipeThreshold + 1)
    /\ touchEndX = Null
    /\ Len(calls) = 2
    /\ Len(news) >= 2

\* C17: error is non-null only with an empty item list, and the item list is
\* non-empty only with a null error.
C17_ErrorExcludesItems ==
    /\ error # Null => Len(news) = 0
    /\ Len(news) > 0 => error = Null

\* C17 witness: an error is stored and the list is empty.
C17_Witness ==
    /\ error # Null
    /\ pc = "done"
    /\ news = <<>>
    /\ outcome = "notArray"
====
